---- MODULE Spec2Model ----
(***************************************************************************)
(* Simple LMK (drivers/staging/android/simple_lmk.c): the reclaim engine, *)
(* its two triggers, the delayed work that drives the periodic trigger,    *)
(* and the activation write.                                               *)
(*                                                                         *)
(* Threads: the workqueue worker that executes reclaim_work ("kworker"),   *)
(* the contexts that call simple_lmk_force_reclaim (1..NumCallers), the    *)
(* context that calls simple_lmk_start_reclaim/simple_lmk_stop_reclaim     *)
(* ("kswapd") and the writer of the minfree parameter ("lmkd").            *)
(***************************************************************************)
EXTENDS Integers, Sequences, FiniteSets, TLC

\* ------------------------------------------------------------- bounds
\* Number of contexts calling simple_lmk_force_reclaim concurrently.
NumCallers == 2
\* Number of entries of the process list walked by for_each_process.
NumTasks == 3
\* jiffies is an unsigned long that wraps; the model wraps it at this modulus.
JiffiesWrap == 8
\* Under Spec the clock stops at this value.
MaxJiffies == 2
\* Saturation of the ghost counter of allocated workqueues.
MaxAllocs == 2
\* PassSpec draws the argument pages_needed of do_lmk_reclaim from 0..MaxNeeded.
MaxNeeded == 3
\* TierSpec draws the importance of its candidate from -1..MaxAdj.
MaxAdj == 907
\* Number of contexts requesting a max boost concurrently.
NumKickers == 2
\* Under BoostSpec the clock stops at this value.
BoostMaxJiffies == 1
\* Under BoostSpec at most this many max-boost requests are made.
MaxKicks == 2

\* ---------------------------------------------------------- constants
\* simple_lmk.c:24, CONFIG_ANDROID_SIMPLE_LMK_MINFREE * SZ_1M / PAGE_SIZE pages.
MIN_FREE_PAGES == 3
\* simple_lmk.c:27
BOOST_DURATION_MS == 250
\* linux/simple_lmk.h: minimum time between kswapd-triggered reclaim events,
\* and the shorter minimum time between OOM-triggered ones (in jiffies).
LMK_KSWAPD_TIMEOUT == 2
LMK_OOM_TIMEOUT == 1
\* Pages per MiB: SZ_1M / PAGE_SIZE of simple_lmk.c:128, scaled like MIN_FREE_PAGES.
PAGES_PER_MIB == 2
\* cpu_input_boost.c:234, CONFIG_WAKE_BOOST_DURATION_MS
WAKE_BOOST_DURATION_MS == 100
\* 1000 / HZ: the length of a jiffy in milliseconds
MSEC_PER_JIFFY == 125

\* simple_lmk.c:30-42
adj_prio == <<906, 900, 800, 700, 600, 500, 400, 300, 200, 100, 0>>

KWorker == <<"kworker", 0>>
KSwapd == <<"kswapd", 0>>
Lmkd == <<"lmkd", 0>>
Caller(n) == <<"oom", n>>
Callers == {Caller(n) : n \in 1..NumCallers}
Reclaimers == {KWorker} \cup Callers
Threads == Reclaimers \cup {KSwapd, Lmkd}
Tasks == 1..NumTasks

NULL == "NULL"
WQ == "simple_lmk"
NoOwner == <<"none", 0>>

VARIABLES
    jiffies,              \* the kernel tick counter
    last_reclaim_jiffies, \* simple_lmk.c:48
    reclaim_lock,         \* simple_lmk.c:46, NoOwner or the owning thread
    simple_lmk_wq,        \* simple_lmk.c:47, NULL or WQ
    simple_lmk_ready,     \* simple_lmk.c:49
    work_pending,         \* reclaim_work: WORK_STRUCT_PENDING bit
    timer_pending,        \* reclaim_work: its timer is armed
    timer_expires,        \* reclaim_work: the expiry of the armed timer
    canceling,            \* reclaim_work: cancel_delayed_work_sync in progress
    rearmed,              \* ghost: the pending work was queued by its own re-arm
    pc,                   \* each thread's position
    i,                    \* do_lmk_reclaim: loop index of each reclaimer
    pages_freed,          \* do_lmk_reclaim: local of each reclaimer
    mib_freed,            \* trigger functions: local of each reclaimer
    pages_needed,         \* do_lmk_reclaim: argument of each reclaimer
    tasks,                \* the process list
    kicked,               \* reclaimers whose pass in progress has requested the boost
    flushed,              \* ghost: the cancel in progress or last done found the work running
    wq_allocs,            \* ghost: workqueues allocated so far (saturating)
    elapsed,              \* ghost: ticks since last_reclaim_jiffies was set (saturating)
    sig_failed,           \* ghost: tasks whose signal failed in the latest scan of the pass
    max_boost_expires,    \* cpu_input_boost.c:45
    max_boost_dur,        \* cpu_input_boost.c:46
    max_boost_state,      \* cpu_input_boost.c:47, the MAX_BOOST bit of state
    max_boost_queued,     \* cpu_input_boost.c:41, the max_boost work is queued
    max_unboost,          \* cpu_input_boost.c:42, the delayed work: pending, expires
    kpc,                  \* __cpu_input_boost_kick_max: position of each requester
    duration_ms,          \* __cpu_input_boost_kick_max: argument of each requester
    curr_expires,         \* __cpu_input_boost_kick_max: local of each requester
    new_expires,          \* __cpu_input_boost_kick_max: local of each requester
    kicks,                \* ghost: number of max-boost requests made so far
    committed_dur,        \* ghost: duration_ms of the request that stored max_boost_expires
    latest_request        \* ghost: the latest expiry computed by a completed request

vars == <<jiffies, last_reclaim_jiffies, reclaim_lock, simple_lmk_wq,
          simple_lmk_ready, work_pending, timer_pending, timer_expires,
          canceling, rearmed, pc, i,
          pages_freed, mib_freed, pages_needed, tasks, kicked, flushed,
          wq_allocs, elapsed, sig_failed, max_boost_expires, max_boost_dur,
          max_boost_state, max_boost_queued, max_unboost, kpc, duration_ms,
          curr_expires, new_expires, kicks, committed_dur, latest_request>>

engine == <<last_reclaim_jiffies, reclaim_lock, simple_lmk_wq, simple_lmk_ready>>
work == <<work_pending, timer_pending, timer_expires, canceling, rearmed>>
locals == <<i, pages_freed, mib_freed, pages_needed>>
effects == <<tasks, kicked>>
ghosts == <<flushed, wq_allocs, elapsed, sig_failed>>
boost == <<max_boost_expires, max_boost_dur, max_boost_state, max_boost_queued,
           max_unboost, kpc, duration_ms, curr_expires, new_expires, kicks,
           committed_dur, latest_request>>

Min(a, b) == IF a < b THEN a ELSE b

\* ------------------------------------------------------------- time
\* unsigned long arithmetic on jiffies
JAdd(a, b) == (a + b) % JiffiesWrap

\* (long)(a - b) >= 0, include/linux/jiffies.h; used at simple_lmk.c:136,157
time_after_eq(a, b) == ((a - b) % JiffiesWrap) < (JiffiesWrap + 1) \div 2

\* (long)(b - a) < 0, include/linux/jiffies.h; used at cpu_input_boost.c:124
time_after(a, b) == ~time_after_eq(b, a)

\* include/linux/jiffies.h: milliseconds to jiffies, rounded up
msecs_to_jiffies(m) == (m + MSEC_PER_JIFFY - 1) \div MSEC_PER_JIFFY

\* ------------------------------------------------------------- boost driver
Kickers == 1..NumKickers

\* cpu_input_boost.c:340,367: the driver after cpu_input_boost_init, no
\* request in progress
BoostIdle ==
    /\ max_boost_expires = 0
    /\ max_boost_dur = 0
    /\ max_boost_state = FALSE
    /\ max_boost_queued = FALSE
    /\ max_unboost = [pending |-> FALSE, expires |-> 0]
    /\ kpc = [k \in Kickers |-> "idle"]
    /\ duration_ms = [k \in Kickers |-> 0]
    /\ curr_expires = [k \in Kickers |-> 0]
    /\ new_expires = [k \in Kickers |-> 0]
    /\ kicks = 0
    /\ committed_dur = 0
    /\ latest_request = 0

\* ------------------------------------------------------------- tasks
\* The process whose context caller c runs in (0: none of the listed ones).
CurrentOf(t) == IF t = Caller(1) THEN 3 ELSE 0

NewTask(adj, rss, kthread) ==
    [oom_score_adj |-> adj, rss |-> rss, kthread |-> kthread,
     mm |-> ~kthread, lmk_sigkill_sent |-> FALSE, memdie |-> FALSE,
     rt |-> FALSE, nsig |-> 0, counted |-> 0]

InitTask(t) ==
    CASE t = 1 -> NewTask(900, 2, FALSE)
      [] t = 2 -> NewTask(100, 2, FALSE)
      [] t = 3 -> NewTask(0, 3, FALSE)
      [] OTHER -> NewTask(0, 0, TRUE)

\* simple_lmk.c:68
same_thread_group(tsk, cur) == tsk = cur

\* simple_lmk.c:71-73: the task holding the mm, or none
find_lock_task_mm(ts, tsk) == IF ts[tsk].mm THEN tsk ELSE 0

\* mutant: the marked-for-death flag is not consulted
KilledOrDying_NoMemdie(v) == v.lmk_sigkill_sent

\* mutant: the kill-outstanding flag is not consulted
KilledOrDying_NoFlag(v) == v.memdie

\* simple_lmk.c:76-77
KilledOrDying(v) == v.lmk_sigkill_sent \/ v.memdie

\* mutant: the lower end of the range is exclusive
OutOfRange_ExclusiveMin(adj, min_adj, max_adj) ==
    adj <= min_adj \/ adj > max_adj

\* simple_lmk.c:83
OutOfRange(adj, min_adj, max_adj) == adj < min_adj \/ adj > max_adj

\* simple_lmk.c:99-103: the victim after a successful signal
MarkKilled(v) ==
    [v EXCEPT !.lmk_sigkill_sent = TRUE, !.rt = TRUE,
              !.nsig = @ + 1, !.counted = @ + 1]

\* mutant: a failed signal flags the victim all the same
SignalFailed_Flagged(v) == [v EXCEPT !.lmk_sigkill_sent = TRUE]

\* simple_lmk.c:94-97: the victim after a failed do_send_sig_info
SignalFailed(v) == v

\* mutant: the footprint is added before the signal is known to be sent
FreedOnFailure_Counted(freed, tasksize) == freed + tasksize

\* simple_lmk.c:94-97: the running total after a failed do_send_sig_info
\* (the "continue" comes before the addition of line 103)
FreedOnFailure(freed, tasksize) == freed

\* simple_lmk.c:62-106: the loop body from list entry k on. needed is the
\* parameter pages_needed; fail is the set of tasks for which
\* do_send_sig_info returns an error during this scan, failed the set of
\* tasks for which it has done so.
RECURSIVE ScanLoop(_, _, _, _, _, _, _, _, _)
ScanLoop(k, ts, freed, failed, min_adj, max_adj, needed, cur, fail) ==
    IF k > NumTasks
    THEN [tasks |-> ts, pages_freed |-> freed, failed |-> failed]
    ELSE LET next == ScanLoop(k + 1, ts, freed, failed, min_adj, max_adj,
                              needed, cur, fail)
             victim == find_lock_task_mm(ts, k)
         IN  IF same_thread_group(k, cur) \/ ts[k].kthread THEN next
             ELSE IF victim = 0 THEN next
             ELSE IF KilledOrDying(ts[victim]) THEN next
             ELSE IF OutOfRange(ts[victim].oom_score_adj, min_adj, max_adj)
                  THEN next
             ELSE IF ts[victim].rss = 0 THEN next
             ELSE IF victim \in fail
                  THEN ScanLoop(k + 1, [ts EXCEPT ![victim] = SignalFailed(@)],
                                FreedOnFailure(freed, ts[victim].rss),
                                failed \cup {victim}, min_adj, max_adj,
                                needed, cur, fail)
             ELSE LET ts2 == [ts EXCEPT ![victim] = MarkKilled(@)]
                      freed2 == freed + ts[victim].rss
                  IN  IF freed2 >= needed
                      THEN [tasks |-> ts2, pages_freed |-> freed2,
                            failed |-> failed]
                      ELSE ScanLoop(k + 1, ts2, freed2, failed, min_adj,
                                    max_adj, needed, cur, fail)

\* simple_lmk.c:51-110
scan_and_kill(ts, min_adj, max_adj, needed, cur, fail) ==
    ScanLoop(1, ts, 0, {}, min_adj, max_adj, needed, cur, fail)

\* ------------------------------------------------------------- Init
Init ==
    /\ jiffies = 0
    /\ last_reclaim_jiffies = 0
    /\ reclaim_lock = NoOwner
    /\ simple_lmk_wq = NULL
    /\ simple_lmk_ready = 0
    /\ work_pending = FALSE
    /\ timer_pending = FALSE
    /\ timer_expires = 0
    /\ canceling = FALSE
    /\ rearmed = FALSE
    /\ pc = [t \in Threads |-> "idle"]
    /\ i = [t \in Reclaimers |-> 0]
    /\ pages_freed = [t \in Reclaimers |-> 0]
    /\ mib_freed = [t \in Reclaimers |-> 0]
    /\ pages_needed = [t \in Reclaimers |-> 0]
    /\ tasks = [t \in Tasks |-> InitTask(t)]
    /\ kicked = {}
    /\ flushed = FALSE
    /\ wq_allocs = 0
    /\ elapsed = 0
    /\ sig_failed = {}
    /\ BoostIdle

\* ------------------------------------------------- do_lmk_reclaim
\* adj_prio[n] with the C index n
AdjPrio(n) == adj_prio[n + 1]
ARRAY_SIZE_adj_prio == Len(adj_prio)

\* mutant: the pass starts scanning without requesting the boost
DoBoost_NoKick(t) ==
    /\ pc[t] = "boost"
    /\ pages_freed' = [pages_freed EXCEPT ![t] = 0]
    /\ i' = [i EXCEPT ![t] = 1]
    /\ pc' = [pc EXCEPT ![t] = "scan"]
    /\ UNCHANGED <<boost, jiffies, engine, work, mib_freed, pages_needed, effects,
                   ghosts>>

\* mutant: the tier loop starts at index 2
DoBoost_FromSecondTier(t) ==
    /\ pc[t] = "boost"
    /\ kicked' = kicked \cup {t}
    /\ pages_freed' = [pages_freed EXCEPT ![t] = 0]
    /\ i' = [i EXCEPT ![t] = 2]
    /\ pc' = [pc EXCEPT ![t] = "scan"]
    /\ UNCHANGED <<boost, jiffies, engine, work, mib_freed, pages_needed, tasks, ghosts>>

\* simple_lmk.c:114-118: the boost requests that open every pass
DoBoost(t) ==
    /\ pc[t] = "boost"
    /\ kicked' = kicked \cup {t}
    /\ pages_freed' = [pages_freed EXCEPT ![t] = 0]
    /\ i' = [i EXCEPT ![t] = 1]
    /\ pc' = [pc EXCEPT ![t] = "scan"]
    /\ UNCHANGED <<boost, jiffies, engine, work, mib_freed, pages_needed, tasks, ghosts>>

\* the tasks whose importance lies in a tier: the only ones a scan of the
\* tier can try to signal
InTier(ts, min_adj, max_adj) ==
    {p \in Tasks : ~OutOfRange(ts[p].oom_score_adj, min_adj, max_adj)}

\* simple_lmk.c:120-125: one iteration of the tier loop; do_send_sig_info
\* may fail for any of the tasks it is tried on
DoScan(t) ==
    /\ pc[t] = "scan"
    /\ \E fail \in SUBSET InTier(tasks, AdjPrio(i[t]), AdjPrio(i[t] - 1)) :
         LET r == scan_and_kill(tasks, AdjPrio(i[t]), AdjPrio(i[t] - 1),
                                pages_needed[t] - pages_freed[t],
                                CurrentOf(t), fail)
             total == pages_freed[t] + r.pages_freed
         IN  /\ tasks' = r.tasks
             /\ sig_failed' = r.failed
             /\ pages_freed' = [pages_freed EXCEPT ![t] = total]
             /\ IF total >= pages_needed[t] \/ i[t] + 1 >= ARRAY_SIZE_adj_prio
                THEN /\ pc' = [pc EXCEPT ![t] = "stamp"]
                     /\ UNCHANGED i
                ELSE /\ i' = [i EXCEPT ![t] = @ + 1]
                     /\ UNCHANGED pc
    /\ UNCHANGED <<boost, jiffies, engine, work, mib_freed, pages_needed, kicked,
                   flushed, wq_allocs, elapsed>>

\* simple_lmk.c:127-128
DoStamp(t) ==
    /\ pc[t] = "stamp"
    /\ last_reclaim_jiffies' = jiffies
    /\ elapsed' = 0
    /\ mib_freed' = [mib_freed EXCEPT ![t] = pages_freed[t] \div PAGES_PER_MIB]
    /\ pc' = [pc EXCEPT ![t] = "unlock"]
    /\ sig_failed' = {}
    /\ UNCHANGED <<boost, jiffies, reclaim_lock, simple_lmk_wq, simple_lmk_ready,
                   work, i, pages_freed, pages_needed, tasks, kicked, flushed,
                   wq_allocs>>

\* ------------------------------------------------- the reclaim lock
\* mutex_lock, simple_lmk.c:135: proceeds only when the mutex is free
MutexLockFree(owner) == owner = NoOwner

\* mutex_trylock, simple_lmk.c:154: succeeds only when the mutex is free
MutexTrylock(owner) == owner = NoOwner

\* mutex_unlock, simple_lmk.c:138: the worker goes on to its re-arm
WorkUnlock ==
    /\ pc[KWorker] \in {"unlock", "unlock_skip"}
    /\ reclaim_lock' = NoOwner
    /\ pc' = [pc EXCEPT ![KWorker] = "requeue"]
    /\ UNCHANGED <<boost, jiffies, last_reclaim_jiffies, simple_lmk_wq,
                   simple_lmk_ready, work, locals, effects, ghosts>>

\* mutant: the gated path returns without unlocking
ForceUnlock_NotWhenGated(c) ==
    /\ pc[c] \in {"unlock", "unlock_skip"}
    /\ reclaim_lock' = IF pc[c] = "unlock_skip" THEN reclaim_lock ELSE NoOwner
    /\ i' = [i EXCEPT ![c] = 0]
    /\ pages_freed' = [pages_freed EXCEPT ![c] = 0]
    /\ mib_freed' = [mib_freed EXCEPT ![c] = 0]
    /\ pages_needed' = [pages_needed EXCEPT ![c] = 0]
    /\ kicked' = kicked \ {c}
    /\ pc' = [pc EXCEPT ![c] = "idle"]
    /\ UNCHANGED <<boost, jiffies, last_reclaim_jiffies, simple_lmk_wq,
                   simple_lmk_ready, work, tasks, ghosts>>

\* mutex_unlock and the return, simple_lmk.c:159-163
ForceUnlock(c) ==
    /\ pc[c] \in {"unlock", "unlock_skip"}
    /\ reclaim_lock' = NoOwner
    /\ i' = [i EXCEPT ![c] = 0]
    /\ pages_freed' = [pages_freed EXCEPT ![c] = 0]
    /\ mib_freed' = [mib_freed EXCEPT ![c] = 0]
    /\ pages_needed' = [pages_needed EXCEPT ![c] = 0]
    /\ kicked' = kicked \ {c}
    /\ pc' = [pc EXCEPT ![c] = "idle"]
    /\ UNCHANGED <<boost, jiffies, last_reclaim_jiffies, simple_lmk_wq,
                   simple_lmk_ready, work, tasks, ghosts>>

\* ------------------------------------------------- reclaim_work
\* queue_delayed_work(simple_lmk_wq, &reclaim_work, delay), simple_lmk.c:143,170:
\* nothing happens when the work is already pending. from_work tells the
\* re-arm of line 143 from the start of line 170.
QueueDelayedWork(delay, from_work) ==
    IF work_pending
    THEN UNCHANGED work
    ELSE /\ work_pending' = TRUE
         /\ timer_pending' = TRUE
         /\ timer_expires' = JAdd(jiffies, delay)
         /\ rearmed' = from_work
         /\ UNCHANGED canceling

TimerDue == timer_pending /\ time_after_eq(jiffies, timer_expires)

\* the timer of the delayed work expires: the work is put on simple_lmk_wq
TimerFire ==
    /\ TimerDue
    /\ timer_pending' = FALSE
    /\ timer_expires' = 0
    /\ UNCHANGED <<boost, jiffies, engine, work_pending, canceling, rearmed, pc,
                   locals, effects, ghosts>>

WorkQueued == work_pending /\ ~timer_pending /\ ~canceling

\* the worker takes reclaim_work off the queue and calls its function
WorkStart ==
    /\ WorkQueued
    /\ pc[KWorker] = "idle"
    /\ work_pending' = FALSE
    /\ rearmed' = FALSE
    /\ pc' = [pc EXCEPT ![KWorker] = "lock"]
    /\ UNCHANGED <<boost, jiffies, engine, timer_pending, timer_expires, canceling,
                   locals, effects, ghosts>>

\* mutant: the work function goes on without taking the lock
WorkLock_NoLock ==
    /\ pc[KWorker] = "lock"
    /\ pc' = [pc EXCEPT ![KWorker] = "gate"]
    /\ UNCHANGED <<boost, jiffies, engine, work, locals, effects, ghosts>>

\* simple_lmk.c:135
WorkLock ==
    /\ pc[KWorker] = "lock"
    /\ MutexLockFree(reclaim_lock)
    /\ reclaim_lock' = KWorker
    /\ pc' = [pc EXCEPT ![KWorker] = "gate"]
    /\ UNCHANGED <<boost, jiffies, last_reclaim_jiffies, simple_lmk_wq,
                   simple_lmk_ready, work, locals, effects, ghosts>>

\* mutant: the periodic gate uses the urgent interval
KswapdGate_OomTimeout(now, last) ==
    time_after_eq(now, JAdd(last, LMK_OOM_TIMEOUT))

\* simple_lmk.c:136
KswapdGate(now, last) == time_after_eq(now, JAdd(last, LMK_KSWAPD_TIMEOUT))

\* simple_lmk.c:136-137
WorkGate ==
    /\ pc[KWorker] = "gate"
    /\ IF KswapdGate(jiffies, last_reclaim_jiffies)
       THEN /\ pages_needed' = [pages_needed EXCEPT ![KWorker] = MIN_FREE_PAGES]
            /\ pc' = [pc EXCEPT ![KWorker] = "boost"]
       ELSE /\ pc' = [pc EXCEPT ![KWorker] = "unlock_skip"]
            /\ UNCHANGED pages_needed
    /\ UNCHANGED <<boost, jiffies, engine, work, i, pages_freed, mib_freed, effects,
                   ghosts>>

\* mutant: the re-arm has slipped into the "if (mib_freed)" block
WorkRequeue_OnlyIfFreed ==
    /\ pc[KWorker] = "requeue"
    /\ IF mib_freed[KWorker] # 0
       THEN QueueDelayedWork(LMK_KSWAPD_TIMEOUT, TRUE)
       ELSE UNCHANGED work
    /\ i' = [i EXCEPT ![KWorker] = 0]
    /\ pages_freed' = [pages_freed EXCEPT ![KWorker] = 0]
    /\ mib_freed' = [mib_freed EXCEPT ![KWorker] = 0]
    /\ pages_needed' = [pages_needed EXCEPT ![KWorker] = 0]
    /\ kicked' = kicked \ {KWorker}
    /\ pc' = [pc EXCEPT ![KWorker] = "idle"]
    /\ UNCHANGED <<boost, jiffies, engine, tasks, ghosts>>

\* simple_lmk.c:140-144: the log line and the re-arm
WorkRequeue ==
    /\ pc[KWorker] = "requeue"
    /\ QueueDelayedWork(LMK_KSWAPD_TIMEOUT, TRUE)
    /\ i' = [i EXCEPT ![KWorker] = 0]
    /\ pages_freed' = [pages_freed EXCEPT ![KWorker] = 0]
    /\ mib_freed' = [mib_freed EXCEPT ![KWorker] = 0]
    /\ pages_needed' = [pages_needed EXCEPT ![KWorker] = 0]
    /\ kicked' = kicked \ {KWorker}
    /\ pc' = [pc EXCEPT ![KWorker] = "idle"]
    /\ UNCHANGED <<boost, jiffies, engine, tasks, ghosts>>

\* ------------------------------------------------- simple_lmk_force_reclaim
\* mutant: the readiness check is missing
ForceCall_NoReadyCheck(c) ==
    /\ pc[c] = "idle"
    /\ pc' = [pc EXCEPT ![c] = "trylock"]
    /\ UNCHANGED <<boost, jiffies, engine, work, locals, effects, ghosts>>

\* simple_lmk.c:146-151: the call and its readiness check
ForceCall(c) ==
    /\ pc[c] = "idle"
    /\ pc' = [pc EXCEPT ![c] =
                IF simple_lmk_ready = 0 THEN "ret_notready" ELSE "trylock"]
    /\ UNCHANGED <<boost, jiffies, engine, work, locals, effects, ghosts>>

\* mutant: the result of mutex_trylock is ignored
ForceTrylock_Ignored(c) ==
    /\ pc[c] = "trylock"
    /\ reclaim_lock' = c
    /\ pc' = [pc EXCEPT ![c] = "gate"]
    /\ UNCHANGED <<boost, jiffies, last_reclaim_jiffies, simple_lmk_wq,
                   simple_lmk_ready, work, locals, effects, ghosts>>

\* simple_lmk.c:154-155
ForceTrylock(c) ==
    /\ pc[c] = "trylock"
    /\ IF MutexTrylock(reclaim_lock)
       THEN /\ reclaim_lock' = c
            /\ pc' = [pc EXCEPT ![c] = "gate"]
       ELSE /\ pc' = [pc EXCEPT ![c] = "ret_busy"]
            /\ UNCHANGED reclaim_lock
    /\ UNCHANGED <<boost, jiffies, last_reclaim_jiffies, simple_lmk_wq,
                   simple_lmk_ready, work, locals, effects, ghosts>>

\* mutant: the urgent gate forgets the interval
OomGate_NoTimeout(now, last) == time_after_eq(now, last)

\* simple_lmk.c:157
OomGate(now, last) == time_after_eq(now, JAdd(last, LMK_OOM_TIMEOUT))

\* simple_lmk.c:157-158
ForceGate(c) ==
    /\ pc[c] = "gate"
    /\ IF OomGate(jiffies, last_reclaim_jiffies)
       THEN /\ pages_needed' = [pages_needed EXCEPT ![c] = MIN_FREE_PAGES]
            /\ pc' = [pc EXCEPT ![c] = "boost"]
       ELSE /\ pc' = [pc EXCEPT ![c] = "unlock_skip"]
            /\ UNCHANGED pages_needed
    /\ UNCHANGED <<boost, jiffies, engine, work, i, pages_freed, mib_freed, effects,
                   ghosts>>

\* simple_lmk.c:151,155: the early returns
ForceReturn(c) ==
    /\ pc[c] \in {"ret_notready", "ret_busy"}
    /\ pc' = [pc EXCEPT ![c] = "idle"]
    /\ UNCHANGED <<boost, jiffies, engine, work, locals, effects, ghosts>>

\* ------------------------------------------------- start and stop
\* the work function is running
WorkRunning == pc[KWorker] # "idle"

\* simple_lmk.c:165-171
StartReclaim ==
    /\ pc[KSwapd] \in {"idle", "stopped"}
    /\ IF simple_lmk_ready = 0
       THEN UNCHANGED work
       ELSE QueueDelayedWork(LMK_KSWAPD_TIMEOUT, FALSE)
    /\ flushed' = FALSE
    /\ pc' = [pc EXCEPT ![KSwapd] = "idle"]
    /\ UNCHANGED <<boost, jiffies, engine, locals, effects, wq_allocs, elapsed,
                   sig_failed>>

\* mutant: cancel_delayed_work instead of cancel_delayed_work_sync, which
\* does not wait for a running work function
StopReclaim_NoSync ==
    /\ pc[KSwapd] \in {"idle", "stopped"}
    /\ IF simple_lmk_ready = 0
       THEN /\ pc' = [pc EXCEPT ![KSwapd] = "idle"]
            /\ UNCHANGED <<work, flushed>>
       ELSE /\ work_pending' = FALSE
            /\ timer_pending' = FALSE
            /\ timer_expires' = 0
            /\ rearmed' = FALSE
            /\ flushed' = WorkRunning
            /\ pc' = [pc EXCEPT ![KSwapd] = "stopped"]
            /\ UNCHANGED canceling
    /\ UNCHANGED <<boost, jiffies, engine, locals, effects, wq_allocs, elapsed,
                   sig_failed>>

\* simple_lmk.c:173-178: the readiness check, then cancel_delayed_work_sync
\* takes the PENDING bit for itself (off the timer or off the queue)
StopReclaim ==
    /\ pc[KSwapd] \in {"idle", "stopped"}
    /\ IF simple_lmk_ready = 0
       THEN /\ pc' = [pc EXCEPT ![KSwapd] = "idle"]
            /\ UNCHANGED <<work, flushed>>
       ELSE /\ work_pending' = TRUE
            /\ timer_pending' = FALSE
            /\ timer_expires' = 0
            /\ canceling' = TRUE
            /\ rearmed' = FALSE
            /\ flushed' = WorkRunning
            /\ pc' = [pc EXCEPT ![KSwapd] = "cancel"]
    /\ UNCHANGED <<boost, jiffies, engine, locals, effects, wq_allocs, elapsed,
                   sig_failed>>

\* simple_lmk.c:178: cancel_delayed_work_sync waits for a running work
\* function to finish, then gives the PENDING bit back and returns
StopSync ==
    /\ pc[KSwapd] = "cancel"
    /\ ~WorkRunning
    /\ work_pending' = FALSE
    /\ canceling' = FALSE
    /\ pc' = [pc EXCEPT ![KSwapd] = "stopped"]
    /\ UNCHANGED <<boost, jiffies, engine, timer_pending, timer_expires, rearmed,
                   locals, effects, ghosts>>

\* ------------------------------------------------- simple_lmk_init_set
\* mutant: the readiness check is missing
InitSetAlloc_NoReadyCheck ==
    /\ pc[Lmkd] \in {"idle", "oops"}
    /\ \E wq \in {NULL, WQ} :
         /\ simple_lmk_wq' = wq
         /\ wq_allocs' = IF wq = NULL THEN wq_allocs
                         ELSE Min(wq_allocs + 1, MaxAllocs)
    /\ pc' = [pc EXCEPT ![Lmkd] = "bug_on"]
    /\ UNCHANGED <<boost, jiffies, last_reclaim_jiffies, reclaim_lock,
                   simple_lmk_ready, work, locals, effects, flushed, elapsed,
                   sig_failed>>

\* simple_lmk.c:182-188: the readiness check and the allocation, which may
\* fail. A writer killed by the BUG is followed by a new one.
InitSetAlloc ==
    /\ pc[Lmkd] \in {"idle", "oops"}
    /\ IF simple_lmk_ready # 0
       THEN /\ pc' = [pc EXCEPT ![Lmkd] = "ret_ready"]
            /\ UNCHANGED <<simple_lmk_wq, wq_allocs>>
       ELSE /\ \E wq \in {NULL, WQ} :
                 /\ simple_lmk_wq' = wq
                 /\ wq_allocs' = IF wq = NULL THEN wq_allocs
                                 ELSE Min(wq_allocs + 1, MaxAllocs)
            /\ pc' = [pc EXCEPT ![Lmkd] = "bug_on"]
    /\ UNCHANGED <<boost, jiffies, last_reclaim_jiffies, reclaim_lock,
                   simple_lmk_ready, work, locals, effects, flushed, elapsed,
                   sig_failed>>

\* simple_lmk.c:189-192: BUG_ON ends the writer ("oops"); otherwise the
\* flag is set and the write returns 0
InitSetReady ==
    /\ pc[Lmkd] = "bug_on"
    /\ IF simple_lmk_wq = NULL
       THEN /\ pc' = [pc EXCEPT ![Lmkd] = "oops"]
            /\ UNCHANGED simple_lmk_ready
       ELSE /\ simple_lmk_ready' = 1
            /\ pc' = [pc EXCEPT ![Lmkd] = "idle"]
    /\ UNCHANGED <<boost, jiffies, last_reclaim_jiffies, reclaim_lock, simple_lmk_wq,
                   work, locals, effects, ghosts>>

\* simple_lmk.c:185: the return of a write that found the engine ready
InitSetReturn ==
    /\ pc[Lmkd] = "ret_ready"
    /\ pc' = [pc EXCEPT ![Lmkd] = "idle"]
    /\ UNCHANGED <<boost, jiffies, engine, work, locals, effects, ghosts>>

\* ------------------------------------------------- the clock
\* a jiffy passes; timers that are due fire before the next one
Tick ==
    /\ ~TimerDue
    /\ jiffies < MaxJiffies
    /\ jiffies' = JAdd(jiffies, 1)
    /\ elapsed' = elapsed + 1
    /\ UNCHANGED <<boost, engine, work, pc, locals, effects, flushed, wq_allocs,
                   sig_failed>>

Next ==
    \/ Tick
    \/ TimerFire
    \/ WorkStart
    \/ WorkLock
    \/ WorkGate
    \/ WorkUnlock
    \/ WorkRequeue
    \/ StartReclaim
    \/ StopReclaim
    \/ StopSync
    \/ InitSetAlloc
    \/ InitSetReady
    \/ InitSetReturn
    \/ \E c \in Callers : ForceCall(c)
    \/ \E c \in Callers : ForceTrylock(c)
    \/ \E c \in Callers : ForceGate(c)
    \/ \E c \in Callers : ForceUnlock(c)
    \/ \E c \in Callers : ForceReturn(c)
    \/ \E t \in Reclaimers : DoBoost(t)
    \/ \E t \in Reclaimers : DoScan(t)
    \/ \E t \in Reclaimers : DoStamp(t)

Spec == Init /\ [][Next]_vars

TypeOK ==
    /\ jiffies \in 0..(JiffiesWrap - 1)
    /\ last_reclaim_jiffies \in 0..(JiffiesWrap - 1)
    /\ reclaim_lock \in Reclaimers \cup {NoOwner}
    /\ timer_expires \in 0..(JiffiesWrap - 1)

\* ------------------------------------------------- the running engine
\* The engine after a successful activation write, with a clock that runs
\* (and wraps) forever: the periodic work, the control calls and one urgent
\* caller, with one user process (task 2) among kernel threads. Further
\* activation writes are left out: they change nothing. The ghost elapsed
\* saturates at the longer interval.
TickWrap ==
    /\ ~TimerDue
    /\ jiffies' = JAdd(jiffies, 1)
    /\ elapsed' = Min(elapsed + 1, LMK_KSWAPD_TIMEOUT)
    /\ UNCHANGED <<boost, engine, work, pc, locals, effects, flushed, wq_allocs,
                   sig_failed>>

LiveCallers == {Caller(1)}
LiveReclaimers == {KWorker} \cup LiveCallers

LiveInit ==
    /\ jiffies = 0
    /\ last_reclaim_jiffies = 0
    /\ reclaim_lock = NoOwner
    /\ simple_lmk_wq = WQ
    /\ simple_lmk_ready = 1
    /\ work_pending = FALSE
    /\ timer_pending = FALSE
    /\ timer_expires = 0
    /\ canceling = FALSE
    /\ rearmed = FALSE
    /\ pc = [t \in Threads |-> "idle"]
    /\ i = [t \in Reclaimers |-> 0]
    /\ pages_freed = [t \in Reclaimers |-> 0]
    /\ mib_freed = [t \in Reclaimers |-> 0]
    /\ pages_needed = [t \in Reclaimers |-> 0]
    /\ tasks = [t \in Tasks |-> IF t = 2 THEN InitTask(t)
                                  ELSE NewTask(0, 0, TRUE)]
    /\ kicked = {}
    /\ flushed = FALSE
    /\ wq_allocs = 1
    /\ elapsed = 0
    /\ sig_failed = {}
    /\ BoostIdle

LiveNext ==
    \/ TickWrap
    \/ TimerFire
    \/ WorkStart
    \/ WorkLock
    \/ WorkGate
    \/ WorkUnlock
    \/ WorkRequeue
    \/ StartReclaim
    \/ StopReclaim
    \/ StopSync
    \/ \E c \in LiveCallers : ForceCall(c)
    \/ \E c \in LiveCallers : ForceTrylock(c)
    \/ \E c \in LiveCallers : ForceGate(c)
    \/ \E c \in LiveCallers : ForceUnlock(c)
    \/ \E c \in LiveCallers : ForceReturn(c)
    \/ \E t \in LiveReclaimers : DoBoost(t)
    \/ \E t \in LiveReclaimers : DoScan(t)
    \/ \E t \in LiveReclaimers : DoStamp(t)

\* The clock runs, due timers fire, the worker thread and a thread inside
\* the locked section keep running, and a thread sleeping in mutex_lock is
\* woken by every unlock, so it gets a lock that is free again and again.
LiveFairness ==
    /\ WF_vars(TickWrap)
    /\ WF_vars(TimerFire)
    /\ WF_vars(WorkStart)
    /\ SF_vars(WorkLock)
    /\ WF_vars(WorkGate)
    /\ WF_vars(WorkUnlock)
    /\ WF_vars(WorkRequeue)
    /\ \A c \in LiveCallers : WF_vars(ForceGate(c)) /\ WF_vars(ForceUnlock(c))
    /\ \A t \in LiveReclaimers :
          WF_vars(DoBoost(t)) /\ WF_vars(DoScan(t)) /\ WF_vars(DoStamp(t))

LiveSpec == LiveInit /\ [][LiveNext]_vars /\ LiveFairness

\* ------------------------------------------------- one pass, any input
\* The state in which reclaimer t has taken the lock, passed its gate and
\* is entering do_lmk_reclaim(needed) with the process list ts.
EnterPass(t, needed, ts) ==
    /\ jiffies = 0
    /\ last_reclaim_jiffies = 0
    /\ reclaim_lock = t
    /\ simple_lmk_wq = WQ
    /\ simple_lmk_ready = 1
    /\ work_pending = FALSE
    /\ timer_pending = FALSE
    /\ timer_expires = 0
    /\ canceling = FALSE
    /\ rearmed = FALSE
    /\ pc = [u \in Threads |-> IF u = t THEN "boost" ELSE "idle"]
    /\ i = [u \in Reclaimers |-> 0]
    /\ pages_freed = [u \in Reclaimers |-> 0]
    /\ mib_freed = [u \in Reclaimers |-> 0]
    /\ pages_needed = [u \in Reclaimers |-> IF u = t THEN needed ELSE 0]
    /\ tasks = ts
    /\ kicked = {}
    /\ flushed = FALSE
    /\ wq_allocs = 1
    /\ elapsed = 0
    /\ sig_failed = {}
    /\ BoostIdle

\* the contexts a pass is studied in: the worker (no listed process is its
\* own) and an urgent caller running in listed process 3
PassReclaimers == {KWorker, Caller(1)}

\* The kinds of list entry scan_and_kill tells apart: processes on the
\* boundary of the first two tiers, on the boundary of the last two and in
\* the last tier, a kernel thread, a process without footprint, one without
\* memory context, one marked for death and one outside 0..906.
TaskKinds ==
    { NewTask(900, 2, FALSE), NewTask(100, 2, FALSE), NewTask(0, 3, FALSE),
      NewTask(0, 0, TRUE), NewTask(906, 0, FALSE),
      [NewTask(800, 1, FALSE) EXCEPT !.mm = FALSE],
      [NewTask(800, 1, FALSE) EXCEPT !.memdie = TRUE],
      NewTask(1000, 1, FALSE) }

PassInit ==
    \E t \in PassReclaimers, needed \in 0..MaxNeeded,
       ts \in [Tasks -> TaskKinds] : EnterPass(t, needed, ts)

PassNext ==
    \/ \E t \in Reclaimers : DoBoost(t)
    \/ \E t \in Reclaimers : DoScan(t)
    \/ \E t \in Reclaimers : DoStamp(t)

PassSpec == PassInit /\ [][PassNext]_vars

\* One pass over a list whose first entry is a process of any importance
\* (the other entries are kernel threads).
TierInit ==
    \E t \in PassReclaimers, adj \in (0 - 1)..MaxAdj :
        EnterPass(t, 1, [p \in Tasks |-> IF p = 1 THEN NewTask(adj, 1, FALSE)
                                         ELSE NewTask(0, 0, TRUE)])

TierSpec == TierInit /\ [][PassNext]_vars

\* ------------------------------------------------- max boost requests
\* the durations requested: by a reclaim pass (simple_lmk.c:117) and by the
\* framebuffer notifier (cpu_input_boost.c:234)
Durations == {BOOST_DURATION_MS, WAKE_BOOST_DURATION_MS}

\* everything but the boost driver and the clock
reclaim == <<engine, work, pc, locals, effects, ghosts>>

\* the later of two points in time
LaterOf(a, b) == IF time_after(a, b) THEN a ELSE b

\* mutant: a plain store that reports success
atomic64_cmpxchg_Store(v, o, n) == [counter |-> n, old |-> o]

\* atomic_64.h:66-67: the new value of the counter and the value returned
atomic64_cmpxchg(v, o, n) == [counter |-> IF v = o THEN n ELSE v, old |-> v]

\* cpu_input_boost.c:133-141,234: a context calls
\* __cpu_input_boost_kick_max(b, d)
KickMaxCall(k) ==
    /\ kpc[k] = "idle"
    /\ kicks < MaxKicks
    /\ kicks' = kicks + 1
    /\ \E d \in Durations : duration_ms' = [duration_ms EXCEPT ![k] = d]
    /\ kpc' = [kpc EXCEPT ![k] = "read"]
    /\ UNCHANGED <<jiffies, reclaim, max_boost_expires, max_boost_dur,
                   max_boost_state, max_boost_queued, max_unboost,
                   curr_expires, new_expires, committed_dur, latest_request>>

\* cpu_input_boost.c:120
KickMaxRead(k) ==
    /\ kpc[k] = "read"
    /\ curr_expires' = [curr_expires EXCEPT ![k] = max_boost_expires]
    /\ kpc' = [kpc EXCEPT ![k] = "compute"]
    /\ UNCHANGED <<jiffies, reclaim, kicks, max_boost_expires, max_boost_dur,
                   max_boost_state, max_boost_queued, max_unboost,
                   duration_ms, new_expires, committed_dur, latest_request>>

\* cpu_input_boost.c:121-125: the proposed expiry; the request ends here
\* when a longer boost is in effect
KickMaxCompute(k) ==
    /\ kpc[k] = "compute"
    /\ LET new == JAdd(jiffies, msecs_to_jiffies(duration_ms[k]))
       IN  /\ new_expires' = [new_expires EXCEPT ![k] = new]
           /\ IF time_after(curr_expires[k], new)
              THEN /\ kpc' = [kpc EXCEPT ![k] = "idle"]
                   /\ latest_request' = LaterOf(latest_request, new)
              ELSE /\ kpc' = [kpc EXCEPT ![k] = "cmpxchg"]
                   /\ UNCHANGED latest_request
    /\ UNCHANGED <<jiffies, reclaim, kicks, max_boost_expires, max_boost_dur,
                   max_boost_state, max_boost_queued, max_unboost,
                   duration_ms, curr_expires, committed_dur>>

\* cpu_input_boost.c:126-127: the loop is left when the exchange succeeded
KickMaxCmpxchg(k) ==
    /\ kpc[k] = "cmpxchg"
    /\ LET r == atomic64_cmpxchg(max_boost_expires, curr_expires[k],
                                 new_expires[k])
       IN  /\ max_boost_expires' = r.counter
           /\ IF r.old # curr_expires[k]
              THEN /\ kpc' = [kpc EXCEPT ![k] = "read"]
                   /\ UNCHANGED committed_dur
              ELSE /\ kpc' = [kpc EXCEPT ![k] = "set_dur"]
                   /\ committed_dur' = duration_ms[k]
    /\ UNCHANGED <<jiffies, reclaim, kicks, max_boost_dur, max_boost_state,
                   max_boost_queued, max_unboost, duration_ms, curr_expires,
                   new_expires, latest_request>>

\* cpu_input_boost.c:129
KickMaxSetDur(k) ==
    /\ kpc[k] = "set_dur"
    /\ max_boost_dur' = duration_ms[k]
    /\ kpc' = [kpc EXCEPT ![k] = "queue"]
    /\ UNCHANGED <<jiffies, reclaim, kicks, max_boost_expires, max_boost_state,
                   max_boost_queued, max_unboost, duration_ms, curr_expires,
                   new_expires, committed_dur, latest_request>>

\* cpu_input_boost.c:130-131
KickMaxQueue(k) ==
    /\ kpc[k] = "queue"
    /\ max_boost_queued' = TRUE
    /\ latest_request' = LaterOf(latest_request, new_expires[k])
    /\ kpc' = [kpc EXCEPT ![k] = "idle"]
    /\ UNCHANGED <<jiffies, reclaim, kicks, max_boost_expires, max_boost_dur,
                   max_boost_state, max_unboost, duration_ms, curr_expires,
                   new_expires, committed_dur>>

\* cpu_input_boost.c:165-176: the driver's worker thread runs the queued
\* work: the unboost is cancelled, MAX_BOOST is set and the unboost is armed
\* again max_boost_dur ahead
max_boost_worker ==
    /\ max_boost_queued
    /\ max_boost_queued' = FALSE
    /\ max_boost_state' = TRUE
    /\ max_unboost' = [pending |-> TRUE,
                       expires |-> JAdd(jiffies, msecs_to_jiffies(max_boost_dur))]
    /\ UNCHANGED <<jiffies, reclaim, kicks, max_boost_expires, max_boost_dur, kpc,
                   duration_ms, curr_expires, new_expires, committed_dur,
                   latest_request>>

\* cpu_input_boost.c:178-185: the unboost timer has expired
max_unboost_worker ==
    /\ max_unboost.pending
    /\ time_after_eq(jiffies, max_unboost.expires)
    /\ max_unboost' = [pending |-> FALSE, expires |-> 0]
    /\ max_boost_state' = FALSE
    /\ UNCHANGED <<jiffies, reclaim, kicks, max_boost_expires, max_boost_dur,
                   max_boost_queued, kpc, duration_ms, curr_expires,
                   new_expires, committed_dur, latest_request>>

\* a jiffy passes
BoostTick ==
    /\ jiffies < BoostMaxJiffies
    /\ jiffies' = JAdd(jiffies, 1)
    /\ UNCHANGED <<reclaim, boost>>

BoostNext ==
    \/ BoostTick
    \/ max_boost_worker
    \/ max_unboost_worker
    \/ \E k \in Kickers : KickMaxCall(k)
    \/ \E k \in Kickers : KickMaxRead(k)
    \/ \E k \in Kickers : KickMaxCompute(k)
    \/ \E k \in Kickers : KickMaxCmpxchg(k)
    \/ \E k \in Kickers : KickMaxSetDur(k)
    \/ \E k \in Kickers : KickMaxQueue(k)

BoostSpec == Init /\ [][BoostNext]_vars

\* ================================================================ claims
\* a reclaimer is executing do_lmk_reclaim
InPass(t) == pc[t] \in {"boost", "scan", "stamp"}

\* what a reclaim pass touches
passEffects == <<tasks, kicked, last_reclaim_jiffies>>

\* C1: at most one execution of do_lmk_reclaim is in progress at any instant,
\* and the thread executing it holds reclaim_lock.
C1_OnePassAtATime ==
    \A t \in Reclaimers :
        InPass(t) => /\ reclaim_lock = t
                     /\ \A u \in Reclaimers : InPass(u) => u = t

\* C1 witness: a pass is in progress while the periodic work waits for the
\* lock and an urgent caller has been turned away.
C1_Witness ==
    \E c \in Callers :
        /\ InPass(c)
        /\ pc[KWorker] = "lock"
        /\ \E d \in Callers : pc[d] = "ret_busy"

\* C2: simple_lmk_force_reclaim never waits for reclaim_lock: its trylock
\* step can always be taken, and taken while the lock is held it returns at
\* once, having signaled no process, requested no boost and left
\* last_reclaim_jiffies and the lock alone.
C2_UrgentNeverWaits ==
    [][\A c \in Callers :
         pc[c] = "trylock" =>
            /\ ENABLED ForceTrylock(c)
            /\ (reclaim_lock # NoOwner /\ pc'[c] # pc[c]) =>
                  /\ pc'[c] = "ret_busy"
                  /\ UNCHANGED <<passEffects, reclaim_lock>>]_vars

\* C2 witness: an urgent caller has returned on contention while another
\* thread's pass is in progress.
C2_Witness ==
    \E c \in Callers :
        /\ pc[c] = "ret_busy"
        /\ \E t \in Reclaimers \ {c} : InPass(t)

\* C3: once a process is flagged lmk_sigkill_sent, no step signals it again
\* or adds its footprint to a freed total again.
C3_NoDoubleKill ==
    [][\A p \in Tasks :
         tasks[p].lmk_sigkill_sent =>
            /\ tasks'[p].nsig = tasks[p].nsig
            /\ tasks'[p].counted = tasks[p].counted
            /\ tasks'[p].nsig = 1
            /\ tasks'[p].counted = 1]_vars

\* C3 witness: task 1 (importance 900, on the boundary of the first two
\* tiers) and task 2 (importance 100, on the boundary of the last two) are
\* both flagged, one of them by an earlier pass and one by the pass in
\* progress (which has freed only one footprint), and that pass has gone on
\* to the last tier, past both boundaries.
C3_Witness ==
    \E t \in Reclaimers :
        /\ pc[t] = "scan"
        /\ i[t] = 10
        /\ pages_freed[t] = 2
        /\ tasks[1].lmk_sigkill_sent
        /\ tasks[2].lmk_sigkill_sent

\* C4: an urgent trigger that holds the lock starts a pass only if at least
\* LMK_OOM_TIMEOUT ticks have elapsed since last_reclaim_jiffies was set;
\* otherwise it goes to the unlock with nothing signaled, no boost requested,
\* the timestamp unchanged and 0 freed, and its unlock frees the lock.
C4_UrgentGate ==
    [][\A c \in Callers :
         /\ (pc[c] = "gate" /\ pc'[c] # pc[c]) =>
               IF elapsed >= LMK_OOM_TIMEOUT
               THEN pc'[c] \in {"boost", "unlock_skip"}
               ELSE /\ pc'[c] = "unlock_skip"
                    /\ UNCHANGED passEffects
         /\ (pc[c] = "unlock_skip" /\ pc'[c] # pc[c]) =>
               /\ pc'[c] = "idle"
               /\ reclaim_lock = c
               /\ reclaim_lock' = NoOwner
               /\ pages_freed[c] = 0
               /\ mib_freed[c] = 0
               /\ c \notin kicked
               /\ UNCHANGED passEffects]_vars

\* C4 witness: an urgent call was gated less than LMK_OOM_TIMEOUT after a
\* pass that signaled a process.
C4_Witness ==
    \E c \in Callers :
        /\ pc[c] = "unlock_skip"
        /\ elapsed < LMK_OOM_TIMEOUT
        /\ \E p \in Tasks : tasks[p].lmk_sigkill_sent

\* a tick is armed or queued and no cancel holds it
TickPending == work_pending /\ ~canceling

\* C5: every execution of the periodic work function ends with the work
\* pending again (armed LMK_KSWAPD_TIMEOUT ahead by its own re-arm unless it
\* was pending already), whatever the pass did, unless a stop is cancelling
\* it; a tick waiting for the lock gets it; and a pending tick that is not
\* cancelled runs. So ticks go on for as long as stop is not called.
C5_TicksGoOn ==
    /\ [][(pc[KWorker] = "requeue" /\ pc'[KWorker] = "idle" /\ ~canceling) =>
             /\ work_pending'
             /\ ~work_pending =>
                   /\ timer_pending'
                   /\ timer_expires' = JAdd(jiffies, LMK_KSWAPD_TIMEOUT)]_vars
    /\ (pc[KWorker] = "lock") ~> (pc[KWorker] = "gate")
    /\ TickPending ~> (pc[KWorker] = "gate" \/ canceling)

\* C5 witness: the work function has ended by arming its own next tick,
\* LMK_KSWAPD_TIMEOUT ahead, and an urgent pass is now in progress.
C5_Witness ==
    /\ rearmed
    /\ timer_pending
    /\ timer_expires = JAdd(jiffies, LMK_KSWAPD_TIMEOUT)
    /\ pc[KWorker] = "idle"
    /\ \E c \in Callers : InPass(c)

\* C6: a periodic tick starts a pass only if at least LMK_KSWAPD_TIMEOUT
\* ticks have elapsed since last_reclaim_jiffies was set (by either
\* trigger); otherwise it signals nothing, requests no boost and leaves the
\* timestamp unchanged.
C6_PeriodicGate ==
    [][/\ (pc[KWorker] = "gate" /\ pc'[KWorker] # pc[KWorker]) =>
             IF elapsed >= LMK_KSWAPD_TIMEOUT
             THEN pc'[KWorker] \in {"boost", "unlock_skip"}
             ELSE /\ pc'[KWorker] = "unlock_skip"
                  /\ UNCHANGED passEffects
       /\ (pc[KWorker] = "unlock_skip" /\ pc'[KWorker] # pc[KWorker]) =>
             /\ pc'[KWorker] = "requeue"
             /\ pages_freed[KWorker] = 0
             /\ KWorker \notin kicked
             /\ UNCHANGED passEffects]_vars

\* C6 witness: a tick was gated after the urgent interval but before the
\* periodic interval had elapsed since a pass that signaled a process.
C6_Witness ==
    /\ pc[KWorker] = "unlock_skip"
    /\ elapsed >= LMK_OOM_TIMEOUT
    /\ elapsed < LMK_KSWAPD_TIMEOUT
    /\ \E p \in Tasks : tasks[p].lmk_sigkill_sent

\* no periodic tick is pending and the work function is not running
PeriodicQuiet ==
    /\ ~work_pending
    /\ ~timer_pending
    /\ ~canceling
    /\ pc[KWorker] = "idle"

\* C7 as stated: when simple_lmk_stop_reclaim returns on an active engine,
\* no periodic tick is pending and no reclaim pass at all is in flight.
C7_AsStated ==
    [][(pc[KSwapd] = "cancel" /\ pc'[KSwapd] = "stopped") =>
          /\ PeriodicQuiet'
          /\ \A t \in Reclaimers : ~InPass(t)']_vars

\* C7 as amended: from the return of simple_lmk_stop_reclaim on an active
\* engine until the next call of start or stop, no periodic tick is pending
\* and the periodic work function is not running (a pass started by the
\* urgent trigger may be in flight).
C7_StopQuiesces == pc[KSwapd] = "stopped" => PeriodicQuiet

\* C7 witness: stop has returned after waiting for a work function that was
\* running when it was called.
C7_Witness == pc[KSwapd] = "stopped" /\ flushed

\* C8: while simple_lmk_ready is unset no step of any thread signals a
\* process, requests a boost, queues or cancels the work, or changes the
\* lock or the timestamp; every force_reclaim call returns at its readiness
\* check and start and stop return to idle.
C8_InactiveNoOps ==
    [][simple_lmk_ready = 0 =>
          /\ UNCHANGED <<passEffects, work, reclaim_lock, flushed>>
          /\ \A c \in Callers : pc'[c] \in {"idle", "ret_notready"}
          /\ pc'[KSwapd] = "idle"
          /\ pc'[KWorker] = "idle"]_vars

\* C8 witness: a force_reclaim call has returned at the readiness check.
C8_Witness ==
    /\ simple_lmk_ready = 0
    /\ \E c \in Callers : pc[c] = "ret_notready"

\* C9: the readiness flag is never cleared; a write that returns leaves it
\* set; once it is set no write allocates a workqueue or changes
\* simple_lmk_wq, so one workqueue at most is ever created.
C9_ReadyOnce ==
    [][/\ simple_lmk_ready = 1 =>
             /\ simple_lmk_ready' = 1
             /\ UNCHANGED <<simple_lmk_wq, wq_allocs>>
             /\ pc'[Lmkd] \in {"idle", "ret_ready"}
       /\ (pc[Lmkd] \in {"bug_on", "ret_ready"} /\ pc'[Lmkd] = "idle") =>
             simple_lmk_ready' = 1
       /\ wq_allocs' <= 1
       /\ simple_lmk_ready' = 1 => (simple_lmk_wq' = WQ /\ wq_allocs' = 1)]_vars

\* C9 witness: a write on the active engine is returning without effect.
C9_Witness ==
    /\ pc[Lmkd] = "ret_ready"
    /\ simple_lmk_ready = 1
    /\ wq_allocs = 1

\* C10 as stated: when alloc_workqueue fails the write returns (reporting
\* the failure) with the readiness flag unset, rather than stopping in BUG.
C10_AsStated ==
    [][(pc[Lmkd] = "bug_on" /\ simple_lmk_wq = NULL /\ pc'[Lmkd] # pc[Lmkd]) =>
          /\ simple_lmk_ready' = 0
          /\ pc'[Lmkd] = "idle"]_vars

\* the tiers whose range test admits an importance value
TiersOf(adj) ==
    {n \in 1..(ARRAY_SIZE_adj_prio - 1) :
        ~OutOfRange(adj, AdjPrio(n), AdjPrio(n - 1))}

\* the values that bound two tiers: 900, 800, ..., 100
SharedBoundaries == {AdjPrio(n) : n \in 1..(ARRAY_SIZE_adj_prio - 2)}

\* the importance range of the table: 0..906
AdjRange == AdjPrio(ARRAY_SIZE_adj_prio - 1)..AdjPrio(0)

\* C11 as stated: every importance value in 0..906 (here: that of each
\* listed process) is eligible in exactly one tier.
C11_AsStated ==
    \A p \in Tasks :
        tasks[p].oom_score_adj \in AdjRange =>
            Cardinality(TiersOf(tasks[p].oom_score_adj)) = 1

\* C11 as amended: the tiers cover 0..906 without gaps; every importance
\* value in that range is eligible in exactly one tier, except the shared
\* boundary values 100, 200, ..., 900, each of which is eligible in exactly
\* the two adjacent tiers it bounds.
C11_TiersCover ==
    \A p \in Tasks :
        LET adj == tasks[p].oom_score_adj
        IN  adj \in AdjRange =>
               IF adj \in SharedBoundaries
               THEN \E n \in 1..(ARRAY_SIZE_adj_prio - 2) :
                       /\ AdjPrio(n) = adj
                       /\ TiersOf(adj) = {n, n + 1}
               ELSE Cardinality(TiersOf(adj)) = 1

\* C11 witness: a process of importance 900 was examined in tier 1, where
\* its signal failed, and signaled in tier 2.
C11_Witness ==
    \E t \in Reclaimers :
        /\ pc[t] = "stamp"
        /\ i[t] = 2
        /\ tasks[1].oom_score_adj = 900
        /\ tasks[1].nsig = 1

\* reclaimer t takes a step of its tier loop
ScanStep(t) == pc[t] = "scan" /\ (pc'[t] # pc[t] \/ i'[t] # i[t])

\* the processes signaled by a step
Signaled == {p \in Tasks : tasks'[p].nsig > tasks[p].nsig}

\* C12: a pass scans tier 1 (900..906) first and then tier after tier in
\* index order, none skipped; a process is signaled only by the scan of a
\* tier its importance lies in, and in a tier after the first only when
\* the scans of all less important tiers, completed before, together freed
\* less than pages_needed.
C12_LeastImportantFirst ==
    [][\A t \in Reclaimers :
         /\ (pc[t] = "boost" /\ pc'[t] = "scan") =>
               (i'[t] = 1 /\ Signaled = {})
         /\ ScanStep(t) =>
               /\ i[t] \in 1..(ARRAY_SIZE_adj_prio - 1)
               /\ pc'[t] = "scan" => i'[t] = i[t] + 1
               /\ pc'[t] # "scan" => (pc'[t] = "stamp" /\ i'[t] = i[t])
               /\ \A p \in Signaled :
                     /\ tasks[p].oom_score_adj >= AdjPrio(i[t])
                     /\ tasks[p].oom_score_adj <= AdjPrio(i[t] - 1)
                     /\ i[t] > 1 => pages_freed[t] < pages_needed[t]]_vars

\* C12 witness: a pass has signaled a process of importance 900 in an early
\* tier and, still short of pages_needed, a process of importance 0 in the
\* last tier.
C12_Witness ==
    \E t \in Reclaimers :
        /\ pc[t] = "stamp"
        /\ i[t] = ARRAY_SIZE_adj_prio - 1
        /\ \E p, q \in Tasks :
              /\ tasks[p].oom_score_adj = 900 /\ tasks[p].nsig = 1
              /\ tasks[q].oom_score_adj = 0 /\ tasks[q].nsig = 1
              /\ pages_freed[t] = tasks[p].rss + tasks[q].rss

\* the sum of the footprints of a set of processes
RECURSIVE SumRss(_)
SumRss(S) ==
    IF S = {} THEN 0
    ELSE LET p == CHOOSE q \in S : TRUE
         IN  tasks[p].rss + SumRss(S \ {p})

\* C13: the total a scan_and_kill call returns (the increase of the pass
\* total by one scan) never exceeds the sum of the footprints of the
\* processes that call signaled; a process whose signal failed is not among
\* them, and only they are counted.
C13_FreedIsSignaled ==
    [][\A t \in Reclaimers :
         ScanStep(t) =>
            /\ pages_freed'[t] - pages_freed[t] <= SumRss(Signaled)
            /\ Signaled \cap sig_failed' = {}
            /\ \A p \in Tasks \ Signaled :
                  tasks'[p].counted = tasks[p].counted]_vars

\* C13 witness: a scan has returned the footprint of the one process it
\* signaled after the signal of another process of the same tier failed.
C13_Witness ==
    \E t \in Reclaimers :
        /\ pc[t] \in {"scan", "stamp"}
        /\ sig_failed # {}
        /\ \E p \in Tasks \ sig_failed :
              /\ tasks[p].nsig = 1
              /\ pages_freed[t] = tasks[p].rss
              /\ \E q \in sig_failed :
                    tasks[q].oom_score_adj = tasks[p].oom_score_adj

\* C14: every pass requests the boost in its first step, before any scan:
\* that step signals nothing, no later step of the pass requests it again,
\* every scanning step is made with the request issued, and the pass ends
\* with the request issued whatever it found; in particular, when no listed
\* process has a footprint, it returns 0 having signaled nothing.
C14_BoostFirst ==
    [][\A t \in Reclaimers :
         /\ (pc[t] = "boost" /\ pc'[t] # pc[t]) =>
               /\ t \notin kicked
               /\ t \in kicked'
               /\ pc'[t] = "scan"
               /\ tasks' = tasks
         /\ pc[t] \in {"scan", "stamp"} =>
               /\ t \in kicked
               /\ kicked' = kicked
         /\ (pc[t] = "stamp" /\ pc'[t] # pc[t]) =>
               /\ pc'[t] = "unlock"
               /\ t \in kicked'
               /\ (\A p \in Tasks : tasks[p].rss = 0) =>
                     /\ mib_freed'[t] = 0
                     /\ pages_freed'[t] = 0
                     /\ \A p \in Tasks : tasks'[p].nsig = 0
                     /\ \A p \in Tasks : ~tasks'[p].lmk_sigkill_sent]_vars

\* C14 witness: a pass over a list in which no process has a footprint
\* (one of them a user process in the importance range) has returned 0 with
\* the boost requested.
C14_Witness ==
    \E t \in Reclaimers :
        /\ pc[t] = "unlock"
        /\ t \in kicked
        /\ mib_freed[t] = 0
        /\ pages_needed[t] > 0
        /\ \A p \in Tasks : tasks[p].rss = 0 /\ tasks[p].nsig = 0
        /\ \E p \in Tasks : ~tasks[p].kthread /\ tasks[p].mm

\* no max-boost request is in progress
KicksDone == \A k \in Kickers : kpc[k] = "idle"

\* C15: no step replaces the stored expiry by an earlier one, and whenever
\* no request is in progress the stored expiry is the latest of the expiries
\* the completed requests computed.
C15_LatestExpiryWins ==
    /\ [][time_after_eq(max_boost_expires', max_boost_expires)]_vars
    /\ [](KicksDone => max_boost_expires = latest_request)

\* C15 witness: two requests have completed, the one with the later expiry
\* having exchanged its expiry for the one the other had stored, and the
\* later expiry is stored.
C15_Witness ==
    /\ KicksDone
    /\ \E k, l \in Kickers :
          /\ time_after(new_expires[k], new_expires[l])
          /\ time_after(new_expires[l], 0)
          /\ curr_expires[k] = new_expires[l]
          /\ max_boost_expires = new_expires[k]

\* C20 as stated: whenever no request is in progress, max_boost_dur is the
\* duration of the request that stored max_boost_expires.
C20_AsStated == KicksDone => max_boost_dur = committed_dur

\* C16 as stated: for every pages_needed (0 included) each scan is called
\* with a deficit that has not underflowed, and the cumulative freed total
\* just before each signal is strictly less than pages_needed.
C16_AsStated ==
    [][\A t \in Reclaimers :
         ScanStep(t) =>
            /\ pages_needed[t] - pages_freed[t] >= 0
            /\ \A p \in Signaled :
                  pages_freed[t] + SumRss({q \in Signaled : q < p})
                     < pages_needed[t]]_vars

\* process p, as it is before a scan by reclaimer t, passes every test of
\* that scan
Eligible(t, p) ==
    /\ p # CurrentOf(t)
    /\ ~tasks[p].kthread
    /\ tasks[p].mm
    /\ ~tasks[p].lmk_sigkill_sent
    /\ ~tasks[p].memdie
    /\ tasks[p].oom_score_adj >= AdjPrio(i[t])
    /\ tasks[p].oom_score_adj <= AdjPrio(i[t] - 1)
    /\ tasks[p].rss > 0

\* C17: a scan signals a process only if, as the scan found it, it is not
\* the caller's own process, is no kernel thread, has a memory context, is
\* neither flagged kill-outstanding nor marked for death, has its
\* importance in the scanned tier's inclusive range (hence in 0..906) and
\* has a non-zero footprint.
C17_OnlyEligibleSignaled ==
    [][\A t \in Reclaimers :
         ScanStep(t) =>
            \A p \in Signaled :
               /\ Eligible(t, p)
               /\ tasks[p].oom_score_adj \in AdjRange]_vars

\* C17 witness: a pass from the urgent trigger has run through all tiers
\* short of pages_needed, having signaled some process but neither the
\* caller's own process (which has importance and footprint to qualify)
\* nor a process marked for death.
C17_Witness ==
    \E t \in Reclaimers :
        /\ pc[t] = "stamp"
        /\ pages_freed[t] < pages_needed[t]
        /\ CurrentOf(t) \in Tasks
        /\ tasks[CurrentOf(t)] = NewTask(900, 2, FALSE)
        /\ \E p \in Tasks : tasks[p].memdie /\ tasks[p].nsig = 0
        /\ \E q \in Tasks : tasks[q].nsig = 1

\* C18: a process whose signal failed in a scan is left as it was (not
\* flagged, priority not raised, not counted) and adds nothing to the
\* total; the scan goes on with the processes after it, signaling or
\* failing on every eligible one until the total reaches the deficit; and
\* the pass goes on to its next tier or its end as it would otherwise.
C18_FailureSkipsVictim ==
    [][\A t \in Reclaimers :
         ScanStep(t) =>
            /\ \A p \in sig_failed' :
                  /\ Eligible(t, p)
                  /\ tasks'[p] = tasks[p]
                  /\ \A q \in Tasks :
                        (q > p /\ Eligible(t, q)) =>
                           \/ q \in Signaled \cup sig_failed'
                           \/ pages_freed[t] + SumRss({r \in Signaled : r < q})
                                 >= pages_needed[t]
            /\ pages_freed'[t] = pages_freed[t] + SumRss(Signaled)
            /\ pc'[t] \in {"scan", "stamp"}
            /\ (pages_freed'[t] < pages_needed[t]
                  /\ i[t] + 1 < ARRAY_SIZE_adj_prio) =>
                  (pc'[t] = "scan" /\ i'[t] = i[t] + 1)]_vars

\* C18 witness: in the scan just made the signal of one process failed and
\* a process after it in the list was signaled; the first is unflagged and
\* its priority is unchanged.
C18_Witness ==
    \E p \in sig_failed :
        /\ ~tasks[p].lmk_sigkill_sent
        /\ ~tasks[p].rt
        /\ tasks[p].counted = 0
        /\ \E q \in Tasks :
              /\ q > p
              /\ tasks[q].lmk_sigkill_sent
              /\ tasks[q].oom_score_adj = tasks[p].oom_score_adj
              /\ \E t \in Reclaimers : pages_freed[t] = tasks[q].rss

\* the positions of a trigger between taking the lock and releasing it
Locked == {"gate", "boost", "scan", "stamp", "unlock", "unlock_skip"}

\* C19: a trigger holds reclaim_lock exactly while it is between its lock
\* and its unlock, so the lock is free whenever no trigger invocation is
\* executing; a lock that is held is released again, whether its holder
\* made a pass or was gated; and the periodic trigger waiting for the lock
\* gets it.
C19_LockAlwaysReleased ==
    /\ [](\A t \in Reclaimers : reclaim_lock = t <=> pc[t] \in Locked)
    /\ [][\A t \in Reclaimers :
            (pc[t] \in {"unlock", "unlock_skip"} /\ pc'[t] # pc[t]) =>
               reclaim_lock' = NoOwner]_vars
    /\ (reclaim_lock # NoOwner) ~> (reclaim_lock = NoOwner)
    /\ (pc[KWorker] = "lock") ~> (reclaim_lock = KWorker)

\* C19 witness: the lock is free again after an urgent pass that signaled
\* a process, while the periodic trigger is waiting for it.
C19_Witness ==
    /\ reclaim_lock = NoOwner
    /\ pc[KWorker] = "lock"
    /\ \A c \in Callers : pc[c] = "idle"
    /\ \E p \in Tasks : tasks[p].lmk_sigkill_sent

====
